---- MODULE Spec2Model ----
(***************************************************************************)
(* Model of the text splitters (lance_db_example/chunking.py), of the      *)
(* keyword ranker of the MCP query-docs tool (c7_mcp/services/mcp.py), of  *)
(* the library and document services with the document routes in front of *)
(* them (c7_mcp/services, c7_mcp/routers/documents.py), and of POST /mcp   *)
(* (c7_mcp/routers/mcp.py).                                                *)
(* Texts are strings; Python's 0-based half-open slices s[a:b] are written *)
(* Slice(s, a, b).                                                         *)
(***************************************************************************)
EXTENDS Integers, Sequences, FiniteSets, TLC

VARIABLES
    mode,        \* what the run exercises: a function or a group of services
    pc,          \* position inside the function
    text,        \* chunk_text: argument text
    chunk_size,  \* chunk_text: argument chunk_size
    overlap,     \* chunk_text: argument overlap
    start,       \* chunk_text: local start
    chunks,      \* chunk_text: local chunks (the returned list)
    windows,     \* chunk_text: the [start, end) window of every iteration so far
    query,       \* query_docs: argument query
    stored,      \* query_docs: the rows retrieved for the library (local chunks)
    rank,        \* query_docs: the locals and the return value of the call
    max_units,     \* argument max_sentences, max_paragraphs or max_tokens
    overlap_units, \* argument overlap_sentences or overlap_tokens
    strip_headers, \* _simple_level3_split: argument strip_headers
    ret,           \* the outcome of the call: the exception raised or the list returned
    libraries,   \* the rows of the libraries table, in table order
    documents,   \* the rows (chunks) of the documents table, in table order
    issued,      \* the number of uuids drawn so far
    last         \* the last call of a service or endpoint and its answer

vars == <<mode, pc, text, chunk_size, overlap, start, chunks, windows,
          query, stored, rank, max_units, overlap_units, strip_headers, ret,
          libraries, documents, issued, last>>

chunkVars == <<text, chunk_size, overlap, start, chunks, windows>>
rankVars == <<query, stored, rank>>
splitVars == <<max_units, overlap_units, strip_headers, ret>>
apiVars == <<libraries, documents, issued, last>>

-----------------------------------------------------------------------------
(* Python str primitives *)

Min2(a, b) == IF a <= b THEN a ELSE b
Max2(a, b) == IF a >= b THEN a ELSE b

CharAt(s, i) == SubSeq(s, i, i)

\* a slice bound i of a sequence of length n: a negative bound counts from
\* the end, and every bound is clipped to 0..n
SliceIndex(i, n) == IF i < 0 THEN Max2(i + n, 0) ELSE Min2(i, n)

\* s[a:b], of a string or of a list
Slice(s, a, b) == SubSeq(s, SliceIndex(a, Len(s)) + 1, SliceIndex(b, Len(s)))

Whitespace == {" ", "\n", "\t", "\r"}
IsSpace(c) == c \in Whitespace

RECURSIVE lstrip(_)
lstrip(s) ==
    IF Len(s) = 0 THEN s
    ELSE IF IsSpace(CharAt(s, 1)) THEN lstrip(SubSeq(s, 2, Len(s)))
    ELSE s

RECURSIVE rstrip(_)
rstrip(s) ==
    IF Len(s) = 0 THEN s
    ELSE IF IsSpace(CharAt(s, Len(s))) THEN rstrip(SubSeq(s, 1, Len(s) - 1))
    ELSE s

\* str.strip()
strip(s) == rstrip(lstrip(s))

\* d occurs in s at 0-based offset i
OccursAt(s, d, i) == i >= 0 /\ i + Len(d) <= Len(s) /\ Slice(s, i, i + Len(d)) = d

\* str.rfind(d): the highest offset at which d occurs, -1 if none
rfind(s, d) ==
    LET hits == {i \in 0..(Len(s) - Len(d)) : OccursAt(s, d, i)}
    IN  IF hits = {} THEN -1 ELSE CHOOSE i \in hits : \A j \in hits : j <= i

\* w in s
Contains(s, w) == \E i \in 0..(Len(s) - Len(w)) : OccursAt(s, w, i)


UpperChars == "ABCDEFGHIJKLMNOPQRSTUVWXYZ"
LowerChars == "abcdefghijklmnopqrstuvwxyz"
UpperSet == {CharAt(UpperChars, i) : i \in 1..Len(UpperChars)}

LowerChar(c) ==
    IF c \in UpperSet
    THEN CharAt(LowerChars, CHOOSE i \in 1..Len(UpperChars) : CharAt(UpperChars, i) = c)
    ELSE c

\* str.lower(), character by character (the string is halved to keep the
\* evaluation shallow)
RECURSIVE lower(_)
lower(s) ==
    IF Len(s) = 0 THEN s
    ELSE IF Len(s) = 1 THEN LowerChar(s)
    ELSE LET h == Len(s) \div 2
         IN  lower(SubSeq(s, 1, h)) \o lower(SubSeq(s, h + 1, Len(s)))

\* the length of the longest prefix of s without whitespace
RECURSIVE WordLen(_, _)
WordLen(s, n) ==
    IF n < Len(s) /\ ~IsSpace(CharAt(s, n + 1)) THEN WordLen(s, n + 1) ELSE n

\* str.split(): the maximal runs of non-whitespace characters, in order
RECURSIVE split(_)
split(s) ==
    LET t == lstrip(s)
    IN  IF Len(t) = 0 THEN <<>>
        ELSE LET n == WordLen(t, 0)
             IN  <<SubSeq(t, 1, n)>> \o split(SubSeq(t, n + 1, Len(t)))

\* unit repeated n times
RECURSIVE Repeat(_, _)
Repeat(unit, n) ==
    IF n <= 0 THEN ""
    ELSE IF n = 1 THEN unit
    ELSE LET half == Repeat(unit, n \div 2)
         IN  half \o half \o (IF n % 2 = 1 THEN unit ELSE "")

\* the locals of query_docs before the call
NoRank == [result |-> "", query_words |-> <<>>, scored |-> <<>>,
           sorted |-> <<>>, combined |-> "", taken |-> 0]

\* the outcome of a call: raised names the exception, "" when the call returned
Return(value) == [raised |-> "", value |-> value]
Raise(exception) == [raised |-> exception, value |-> <<>>]
NoRet == Return(<<>>)

\* the arguments of the other splitters while another function runs
NoSplit ==
    /\ max_units = 0
    /\ overlap_units = 0
    /\ strip_headers = FALSE
    /\ ret = NoRet

\* the tables while a function without a database runs
NoApi ==
    /\ libraries = <<>>
    /\ documents = <<>>
    /\ issued = 0
    /\ last = [op |-> "", arg |-> "", raised |-> "", message |-> "", status |-> 0,
               requests |-> <<>>,
               listing |-> [limit |-> 0, offset |-> 0, value |-> <<>>],
               request |-> [id |-> [type |-> "null", int |-> 0, str |-> ""],
                            method |-> ""],
               response |-> [jsonrpc |-> "",
                             result |-> [content |-> <<>>],
                             has_id |-> FALSE,
                             id |-> [type |-> "null", int |-> 0, str |-> ""]]]

-----------------------------------------------------------------------------
(* chunk_text(text, chunk_size, overlap) *)

\* a window longer than this is searched for a sentence boundary, in its
\* last SnapSearch characters
SnapSearch == 100

Delimiters == <<". ", "! ", "? ", "\n\n">>

\* the for loop over the delimiters: the window length after the cut at the
\* first delimiter, from the k-th on, that occurs in search_chunk; 0 if none
RECURSIVE SnapLenLatest(_, _, _)
SnapLenLatest(search_chunk, search_start, k) ==
    IF k > Len(Delimiters) THEN 0
    ELSE LET last_delim == rfind(search_chunk, Delimiters[k])
             here == IF last_delim # -1
                     THEN search_start + last_delim + Len(Delimiters[k]) ELSE 0
         IN  Max2(here, SnapLenLatest(search_chunk, search_start, k + 1))

RECURSIVE SnapLen(_, _, _)
SnapLen(search_chunk, search_start, k) ==
    IF k > Len(Delimiters) THEN 0
    ELSE LET last_delim == rfind(search_chunk, Delimiters[k])
         IN  IF last_delim # -1
             THEN search_start + last_delim + Len(Delimiters[k])
             ELSE SnapLen(search_chunk, search_start, k + 1)

\* the value of end when the window's chunk is taken
WindowEnd(t, s, size) ==
    LET text_len == Len(t)
        end == Min2(s + size, text_len)
        chunk == Slice(t, s, end)
    IN  IF end < text_len /\ Len(chunk) > SnapSearch
        THEN LET search_start == Max2(0, Len(chunk) - SnapSearch)
                 search_chunk == Slice(chunk, search_start, Len(chunk))
                 actual_delim_pos == SnapLen(search_chunk, search_start, 1)
             IN  IF actual_delim_pos # 0 THEN s + actual_delim_pos ELSE end
        ELSE end

\* chunk = chunk.strip()
TrimChunk(raw) == strip(raw)

\* if chunk: chunks.append(chunk)
AppendChunkKeepEmpty(cs, chunk) == Append(cs, chunk)
AppendChunk(cs, chunk) == IF chunk # "" THEN Append(cs, chunk) ELSE cs

\* the start of the next iteration
AdvanceNaive(s, end, ov) == end - ov
AdvanceOffByOne(s, end, ov) == Max2(end - ov + 1, s + 1)
Advance(s, end, ov) ==
    LET next_start == Max2(end - ov, s + 1)
    IN  IF next_start <= s THEN end ELSE next_start

\* if not text: return []
chunk_text_entry ==
    /\ mode = "chunk"
    /\ pc = "call"
    /\ pc' = IF text = "" THEN "done" ELSE "loop"
    /\ start' = 0
    /\ chunks' = <<>>
    /\ windows' = <<>>
    /\ UNCHANGED <<mode, text, chunk_size, overlap, rankVars, splitVars, apiVars>>

\* one iteration of while start < text_len
chunk_text_loop ==
    /\ mode = "chunk"
    /\ pc = "loop"
    /\ start < Len(text)
    /\ LET end == WindowEnd(text, start, chunk_size)
           chunk == TrimChunk(Slice(text, start, end))
           nxt == Advance(start, end, overlap)
       IN  /\ chunks' = AppendChunk(chunks, chunk)
           /\ windows' = Append(windows, [s |-> start, e |-> end])
           /\ start' = nxt
           /\ pc' = IF nxt >= Len(text) THEN "done" ELSE "loop"
    /\ UNCHANGED <<mode, text, chunk_size, overlap, rankVars, splitVars, apiVars>>

-----------------------------------------------------------------------------
(* inputs of chunk_text *)

MaxTextLen == 3
MaxSmallSize == 4
MaxSmallOverlap == 3
LongReps == 25

Alphabet == {"a", " ", "."}

RECURSIVE TextsOfLen(_)
TextsOfLen(n) ==
    IF n = 0 THEN {""}
    ELSE {t \o c : t \in TextsOfLen(n - 1), c \in Alphabet}

ShortTexts == UNION {TextsOfLen(n) : n \in 0..MaxTextLen}

LongUnits == {"ab. cd! ef", "a? b\n\nc", "abcdef", "a b. "}
LongTexts == {Repeat(u, LongReps) : u \in LongUnits}

SmallSizes == 0..MaxSmallSize
LargeSizes == {SnapSearch + 1, SnapSearch + 10}
Overlaps == (0..MaxSmallOverlap) \cup {SnapSearch, SnapSearch + 20}

\* short texts with every size; the long texts with the sizes whose windows
\* are searched for a sentence boundary
ChunkInputs ==
    (ShortTexts \X (SmallSizes \cup LargeSizes) \X Overlaps)
        \cup (LongTexts \X LargeSizes \X Overlaps)

ChunkInit ==
    /\ mode = "chunk"
    /\ pc = "call"
    /\ \E input \in ChunkInputs :
          /\ text = input[1]
          /\ chunk_size = input[2]
          /\ overlap = input[3]
    /\ start = 0
    /\ chunks = <<>>
    /\ windows = <<>>
    /\ query = ""
    /\ stored = <<>>
    /\ rank = NoRank
    /\ NoSplit
    /\ NoApi

ChunkNext == chunk_text_entry \/ chunk_text_loop

SpecChunk == ChunkInit /\ [][ChunkNext]_vars

-----------------------------------------------------------------------------
(* chunk_text: properties *)

\* the trimmed content of a window
ChunkOfWindow(w) == strip(Slice(text, w.s, w.e))

HasContent(w) == ChunkOfWindow(w) # ""

\* the windows that are not whitespace only, in the order taken
ContentWindows == SelectSeq(windows, HasContent)

\* the 1-based character position p lies in the window w
InWindow(p, w) == w.s < p /\ p <= w.e

\* C1: with chunk_size >= 1 and overlap >= 0 every iteration of the loop moves
\* start to a strictly larger value, and the loop runs at most len(text) times.
C1_ForwardProgress ==
    (mode = "chunk" /\ chunk_size >= 1 /\ overlap >= 0) =>
        /\ \A i \in 1..(Len(windows) - 1) : windows[i].s < windows[i + 1].s
        /\ windows # <<>> => windows[Len(windows)].s < start
        /\ Len(windows) <= Len(text)

\* the loop ran len(text) times although overlap >= chunk_size
C1_Witness ==
    /\ mode = "chunk" /\ pc = "done"
    /\ chunk_size >= 1 /\ overlap >= chunk_size
    /\ Len(text) >= 3 /\ Len(windows) = Len(text)

\* C2: a non-empty text shorter than chunk_size gives exactly one chunk, the
\* whole text trimmed, for every overlap with 0 <= overlap < chunk_size.
C2_ShortTextOneChunk ==
    (/\ mode = "chunk" /\ pc = "done"
     /\ text # "" /\ Len(text) < chunk_size
     /\ 0 <= overlap /\ overlap < chunk_size)
        => chunks = <<strip(text)>>

\* C3: every returned chunk is non-empty, has no leading or trailing
\* whitespace and is the trimmed content of one window; a window of only
\* whitespace contributes no chunk.
C3_ChunksTrimmedNonEmpty ==
    mode = "chunk" =>
        LET kept == ContentWindows
        IN  /\ \A k \in 1..Len(chunks) :
                  /\ chunks[k] # ""
                  /\ ~IsSpace(CharAt(chunks[k], 1))
                  /\ ~IsSpace(CharAt(chunks[k], Len(chunks[k])))
            /\ Len(chunks) = Len(kept)
            /\ \A k \in 1..Len(chunks) : chunks[k] = ChunkOfWindow(kept[k])

\* a whitespace-only window was dropped and a kept window was trimmed
C3_Witness ==
    /\ mode = "chunk" /\ pc = "done"
    /\ \E i \in 1..Len(windows) : ~HasContent(windows[i]) /\ windows[i].e > windows[i].s
    /\ \E i \in 1..Len(windows) :
          /\ HasContent(windows[i])
          /\ ChunkOfWindow(windows[i]) # Slice(text, windows[i].s, windows[i].e)

\* C4: with chunk_size >= 1 and overlap >= 0 the windows start at strictly
\* increasing offsets, each at or before the end of the previous one, so at
\* the return every non-whitespace character lies in a window whose chunk is
\* returned, and the chunks are in the order of their windows.
C4_Coverage ==
    (mode = "chunk" /\ chunk_size >= 1 /\ overlap >= 0) =>
        /\ windows # <<>> => windows[1].s = 0
        /\ \A i \in 1..(Len(windows) - 1) :
              /\ windows[i].s < windows[i + 1].s
              /\ windows[i + 1].s <= windows[i].e
        /\ pc = "done" =>
              LET kept == ContentWindows
              IN  /\ \A p \in 1..Len(text) :
                        ~IsSpace(CharAt(text, p)) =>
                            \E k \in 1..Len(kept) :
                                /\ InWindow(p, kept[k])
                                /\ k <= Len(chunks)
                                /\ chunks[k] = ChunkOfWindow(kept[k])
                  /\ \A k \in 1..(Len(kept) - 1) : kept[k].s < kept[k + 1].s

\* a run with overlapping windows, one of them cut at a sentence boundary
C4_Witness ==
    /\ mode = "chunk" /\ pc = "done"
    /\ chunk_size >= 1 /\ overlap >= 1
    /\ Len(chunks) >= 2
    /\ \E i \in 1..Len(windows) :
          /\ windows[i].e < Len(text)
          /\ windows[i].e - windows[i].s < chunk_size

\* the window of full size that starts at s
FullEnd(s) == Min2(s + chunk_size, Len(text))

\* the marker m occurs in t with its first character at the 1-based position i
MarkerAt(m, t, i) == i >= 1 /\ i + Len(m) - 1 <= Len(t) /\ SubSeq(t, i, i + Len(m) - 1) = m
MarkerIn(m, t) == \E i \in 1..Len(t) : MarkerAt(m, t, i)

\* the number of characters of t up to the end of the right-most occurrence of m
AfterRightmost(m, t) ==
    LET i == CHOOSE i \in 1..Len(t) :
                 /\ MarkerAt(m, t, i)
                 /\ \A j \in (i + 1)..Len(t) : ~MarkerAt(m, t, j)
    IN  i + Len(m) - 1

\* the end the window starting at s must have
SnappedEnd(s) ==
    LET full == FullEnd(s)
        tail == SubSeq(text, full - SnapSearch + 1, full)
        found == {k \in 1..Len(Delimiters) : MarkerIn(Delimiters[k], tail)}
        first == CHOOSE k \in found : \A other \in found : k <= other
    IN  IF full < Len(text) /\ full - s > SnapSearch /\ found # {}
        THEN full - SnapSearch + AfterRightmost(Delimiters[first], tail)
        ELSE full

\* C22: when a window of chunk_text does not reach the end of the text and is
\* longer than 100 characters, the markers ". ", "! ", "? " and a blank line
\* are tried in that order on its last 100 characters; the window is cut right
\* after the right-most occurrence of the first marker that occurs there, and
\* if none occurs, or the window is at most 100 characters or reaches the end
\* of the text, the full window is kept.
C22_CutAtFirstMarker ==
    mode = "chunk" =>
        \A i \in 1..Len(windows) : windows[i].e = SnappedEnd(windows[i].s)

\* a window cut after ". " although "! " occurs later in its last 100 characters
C22_Witness ==
    /\ mode = "chunk" /\ pc = "done"
    /\ \E i \in 1..Len(windows) :
          /\ windows[i].e < FullEnd(windows[i].s)
          /\ SubSeq(text, windows[i].e - 1, windows[i].e) = ". "
          /\ MarkerIn("! ", SubSeq(text, windows[i].e + 1, FullEnd(windows[i].s)))

-----------------------------------------------------------------------------
(* query_docs(library_id, query), from the rows retrieved for the library *)

\* the response is capped at this many characters
MaxCombined == 8000

MinWordLen == 2

Separator == "\n\n"

\* query_words = [w for w in query_lower.split() if len(w) > 2]
IsKeyword(w) == Len(w) > MinWordLen
QueryWords(q) == SelectSeq(split(lower(q)), IsKeyword)

\* score = sum(1 for w in query_words if w in text_lower)
Score(words, t) ==
    LET text_lower == lower(t)
    IN  Cardinality({i \in 1..Len(words) : Contains(text_lower, words[i])})

\* scored_chunks: one (score, text) pair per row, in row order
ScoredChunks(words, rows) ==
    [i \in 1..Len(rows) |-> <<Score(words, rows[i].text), rows[i].text>>]

\* x put into a list sorted by score, highest first, behind the pairs that
\* score at least as much
RECURSIVE InsertBehindEqual(_, _)
InsertBehindEqual(sorted, x) ==
    IF sorted = <<>> THEN <<x>>
    ELSE IF Head(sorted)[1] >= x[1]
         THEN <<Head(sorted)>> \o InsertBehindEqual(Tail(sorted), x)
         ELSE <<x>> \o sorted

RECURSIVE InsertBeforeEqual(_, _)
InsertBeforeEqual(sorted, x) ==
    IF sorted = <<>> THEN <<x>>
    ELSE IF Head(sorted)[1] > x[1]
         THEN <<Head(sorted)>> \o InsertBeforeEqual(Tail(sorted), x)
         ELSE <<x>> \o sorted

\* sorted(pairs, reverse=True) on an ascending sort: equal scores come out in
\* reverse order
RECURSIVE SortReversedFrom(_, _)
SortReversedFrom(done, rest) ==
    IF rest = <<>> THEN done
    ELSE SortReversedFrom(InsertBeforeEqual(done, Head(rest)), Tail(rest))

SortReversed(pairs) == SortReversedFrom(<<>>, pairs)

\* the pairs of rest put one by one, in list order, into the sorted list done
RECURSIVE SortFrom(_, _)
SortFrom(done, rest) ==
    IF rest = <<>> THEN done
    ELSE SortFrom(InsertBehindEqual(done, Head(rest)), Tail(rest))

\* scored_chunks.sort(key=lambda x: x[0], reverse=True): list.sort is stable
\* and reverse=True keeps the order of equal keys
SortByScore(pairs) == SortFrom(<<>>, pairs)

\* the for loop over scored_chunks from the i-th pair on: combined and the
\* number of pairs appended when the loop ends
RECURSIVE AssembleSkipping(_, _, _, _)
AssembleSkipping(sorted, i, combined, taken) ==
    IF i > Len(sorted) THEN [combined |-> combined, taken |-> taken]
    ELSE IF Len(combined) + Len(sorted[i][2]) > MaxCombined
         THEN AssembleSkipping(sorted, i + 1, combined, taken)
         ELSE AssembleSkipping(sorted, i + 1, combined \o sorted[i][2] \o Separator,
                               taken + 1)

RECURSIVE AssembleLate(_, _, _, _)
AssembleLate(sorted, i, combined, taken) ==
    IF i > Len(sorted) THEN [combined |-> combined, taken |-> taken]
    ELSE IF Len(combined) > MaxCombined
         THEN [combined |-> combined, taken |-> taken]
         ELSE AssembleLate(sorted, i + 1, combined \o sorted[i][2] \o Separator,
                           taken + 1)

RECURSIVE Assemble(_, _, _, _)
Assemble(sorted, i, combined, taken) ==
    IF i > Len(sorted) THEN [combined |-> combined, taken |-> taken]
    ELSE IF Len(combined) + Len(sorted[i][2]) > MaxCombined
         THEN [combined |-> combined, taken |-> taken]
         ELSE Assemble(sorted, i + 1, combined \o sorted[i][2] \o Separator,
                       taken + 1)

\* return combined.strip() or chunks[0]["text"]
FallbackLast(combined, rows) ==
    IF strip(combined) # "" THEN strip(combined) ELSE rows[Len(rows)].text
Fallback(combined, rows) ==
    IF strip(combined) # "" THEN strip(combined) ELSE rows[1].text

\* if not chunks: return f"No documentation found for library '{lib_name}'"
NoDocsEmpty(lib_name) == ""
NoDocs(lib_name) == "No documentation found for library '" \o lib_name \o "'"

LibName == "demo"

\* the locals and the return value of query_docs for the retrieved rows
RankCall(q, rows) ==
    IF rows = <<>>
    THEN [NoRank EXCEPT !.result = NoDocs(LibName)]
    ELSE LET words == QueryWords(q)
             scored == ScoredChunks(words, rows)
             sorted == SortByScore(scored)
             asm == Assemble(sorted, 1, "", 0)
         IN  [result |-> Fallback(asm.combined, rows),
              query_words |-> words,
              scored |-> scored,
              sorted |-> sorted,
              combined |-> asm.combined,
              taken |-> asm.taken]

query_docs ==
    /\ mode = "rank"
    /\ pc = "call"
    /\ rank' = RankCall(query, stored)
    /\ pc' = "done"
    /\ UNCHANGED <<mode, query, stored, chunkVars, splitVars, apiVars>>

-----------------------------------------------------------------------------
(* inputs of query_docs *)

MaxStored == 3

\* a text of n characters that starts with prefix
Pad(prefix, n) == prefix \o Repeat("x", n - Len(prefix))

FragmentTexts ==
    {"Alpha beta", "gamma", " \n",
     Pad("Gamma ", MaxCombined + 1),
     Pad("beta ", (MaxCombined \div 2) - 1),
     Pad("", MaxCombined \div 2)}

Queries == {"", "a of", "beta", "Alpha  BETA", "beta beta gamma"}

RECURSIVE RowsOfLen(_)
RowsOfLen(n) ==
    IF n = 0 THEN {<<>>}
    ELSE {Append(rows, [text |-> t]) : rows \in RowsOfLen(n - 1), t \in FragmentTexts}

RankInit ==
    /\ mode = "rank"
    /\ pc = "call"
    /\ query \in Queries
    /\ stored \in UNION {RowsOfLen(n) : n \in 0..MaxStored}
    /\ rank = NoRank
    /\ text = ""
    /\ chunk_size = 0
    /\ overlap = 0
    /\ start = 0
    /\ chunks = <<>>
    /\ windows = <<>>
    /\ NoSplit
    /\ NoApi

RankNext == query_docs

SpecRank == RankInit /\ [][RankNext]_vars

-----------------------------------------------------------------------------
(* query_docs: properties *)

RankDone == mode = "rank" /\ pc = "done"

\* the keyword set of a query: its distinct lowercased words of more than
\* two characters
KeywordSet(q) ==
    LET ws == split(lower(q))
    IN  {ws[i] : i \in {j \in 1..Len(ws) : Len(ws[j]) > 2}}

\* C5: the score of a fragment is the number of distinct query keywords that
\* occur in the lowercased fragment, so a repeated query word counts once.
C5_ScoreCountsDistinctKeywords ==
    (RankDone /\ stored # <<>>) =>
        \A i \in 1..Len(stored) :
            rank.scored[i][1] =
                Cardinality({w \in KeywordSet(query) :
                                Contains(lower(stored[i].text), w)})

\* C6: the sorted pairs are the scored pairs of the retrieved rows, ordered by
\* score, highest first, pairs of equal score in retrieval order.
C6_StableDescending ==
    (RankDone /\ stored # <<>>) =>
        LET sc == rank.scored
            so == rank.sorted
            n == Len(stored)
        IN  /\ Len(sc) = n /\ Len(so) = n
            /\ \A i \in 1..n : sc[i][2] = stored[i].text
            /\ \E perm \in Permutations(1..n) :
                  /\ \A i \in 1..n : so[i] = sc[perm[i]]
                  /\ \A i, j \in 1..n :
                        i < j =>
                            \/ sc[perm[i]][1] > sc[perm[j]][1]
                            \/ /\ sc[perm[i]][1] = sc[perm[j]][1]
                               /\ perm[i] < perm[j]

\* a higher score was moved ahead while two different fragments tie
C6_Witness ==
    /\ RankDone
    /\ rank.sorted # rank.scored
    /\ \E i, j \in 1..Len(rank.sorted) :
          /\ i < j
          /\ rank.sorted[i][1] = rank.sorted[j][1]
          /\ rank.sorted[i][2] # rank.sorted[j][2]

\* the first k sorted fragments, each followed by a blank line
RECURSIVE PrefixText(_, _)
PrefixText(so, k) ==
    IF k = 0 THEN "" ELSE PrefixText(so, k - 1) \o so[k][2] \o "\n\n"

\* each of the first k sorted fragments fits behind the ones before it
PrefixFits(so, k) ==
    \A j \in 1..k : Len(PrefixText(so, j - 1)) + Len(so[j][2]) <= MaxCombined

\* C7: the assembled text is the longest prefix of the sorted fragments, each
\* followed by a blank line, in which every fragment fits in the budget behind
\* the ones before it; nothing behind the first misfit is included.
C7_LongestFittingPrefix ==
    (RankDone /\ stored # <<>>) =>
        LET so == rank.sorted
            k == rank.taken
        IN  /\ k \in 0..Len(so)
            /\ PrefixFits(so, k)
            /\ k < Len(so) => ~PrefixFits(so, k + 1)
            /\ rank.combined = PrefixText(so, k)

\* assembly stopped at a misfit although a later fragment would have fitted
C7_Witness ==
    /\ RankDone
    /\ rank.taken >= 1
    /\ rank.taken + 1 < Len(rank.sorted)
    /\ \E j \in (rank.taken + 2)..Len(rank.sorted) :
          Len(rank.combined) + Len(rank.sorted[j][2]) <= MaxCombined

\* the length of the longest retrieved fragment, 0 without fragments
RECURSIVE MaxTextLenOf(_)
MaxTextLenOf(rows) ==
    IF rows = <<>> THEN 0 ELSE Max2(Len(Head(rows).text), MaxTextLenOf(Tail(rows)))

\* C8: the returned text has at most 8000 characters plus the length of one
\* fragment: at most 8000 when a fragment was assembled, and one of the
\* fragments when none was.
C8_LengthBound ==
    RankDone =>
        /\ Len(rank.result) <= MaxCombined + MaxTextLenOf(stored)
        /\ stored # <<>> =>
              /\ rank.taken >= 1 => Len(rank.result) <= MaxCombined
              /\ rank.taken = 0 =>
                    \E i \in 1..Len(stored) : rank.result = stored[i].text

\* two fragments were assembled and fill the budget exactly
C8_Witness ==
    /\ RankDone
    /\ rank.taken >= 2
    /\ Len(rank.result) = MaxCombined

\* C9: with a fragment stored and no keyword in the query the returned text
\* has at most 8000 characters.
C9_EmptyKeywordsBounded ==
    (RankDone /\ stored # <<>> /\ KeywordSet(query) = {}) =>
        Len(rank.result) <= MaxCombined

-----------------------------------------------------------------------------
(* chunk_by_sentences, chunk_by_paragraphs, chunk_by_tokens,               *)
(* _simple_level3_split                                                    *)

\* str.split(sep): the pieces between the occurrences of sep, empty ones kept
RECURSIVE splitOn(_, _)
splitOn(s, sep) ==
    LET hits == {i \in 0..(Len(s) - Len(sep)) : OccursAt(s, sep, i)}
    IN  IF hits = {} THEN <<s>>
        ELSE LET i == CHOOSE i \in hits : \A j \in hits : i <= j
             IN  <<SubSeq(s, 1, i)>> \o splitOn(SubSeq(s, i + Len(sep) + 1, Len(s)), sep)

\* sep.join(parts)
RECURSIVE join(_, _)
join(sep, parts) ==
    IF Len(parts) = 0 THEN ""
    ELSE IF Len(parts) = 1 THEN parts[1]
    ELSE parts[1] \o sep \o join(sep, Tail(parts))

\* [s.strip() for s in parts if s.strip()]
StripNonEmpty(parts) ==
    SelectSeq([i \in 1..Len(parts) |-> strip(parts[i])], LAMBDA x : x # "")

\* re.split(r'(?<=[.!?])\s+', text): text is cut at every run of whitespace
\* that follows one of . ! ?
SentenceEnds == {".", "!", "?"}
RECURSIVE re_split(_)
re_split(t) ==
    LET cuts == {p \in 1..(Len(t) - 1) :
                    CharAt(t, p) \in SentenceEnds /\ IsSpace(CharAt(t, p + 1))}
    IN  IF cuts = {} THEN <<t>>
        ELSE LET p == CHOOSE p \in cuts : \A q \in cuts : p <= q
             IN  <<SubSeq(t, 1, p)>> \o re_split(lstrip(SubSeq(t, p + 1, Len(t))))

\* step = max(1, max - overlap)
StepIgnoringOverlap(max, ov) == Max2(1, max)
Step(max, ov) == Max2(1, max - ov)

\* the while loop of chunk_by_sentences and of chunk_by_tokens: from item i
\* (0-based), the chunks appended to chunks
RECURSIVE GroupFrom(_, _, _, _, _, _)
GroupFrom(items, i, max, ov, sep, acc) ==
    IF i >= Len(items) THEN acc
    ELSE GroupFrom(items, i + Step(max, ov), max, ov, sep,
                   Append(acc, join(sep, Slice(items, i, i + max))))

Sentences(t) == StripNonEmpty(re_split(t))

ChunkBySentences(t, max_sentences, overlap_sentences) ==
    IF t = "" THEN Return(<<>>)
    ELSE LET sentences == Sentences(t)
         IN  IF Len(sentences) = 0 THEN Return(<<>>)
             ELSE Return(GroupFrom(sentences, 0, max_sentences,
                                   overlap_sentences, " ", <<>>))

\* range(a, b, step) for step # 0
RECURSIVE range(_, _, _)
range(a, b, step) ==
    IF (step > 0 /\ a >= b) \/ (step < 0 /\ a <= b) THEN <<>>
    ELSE <<a>> \o range(a + step, b, step)

Paragraphs(t) == StripNonEmpty(splitOn(t, "\n\n"))

\* the values of i in for i in range(0, len(paragraphs), max_paragraphs)
GroupStartsEveryOne(n, max_paragraphs) == range(0, n, 1)
GroupStarts(n, max_paragraphs) == range(0, n, max_paragraphs)

\* range() raises ValueError when its step is zero
ChunkByParagraphs(t, max_paragraphs) ==
    IF t = "" THEN Return(<<>>)
    ELSE LET paragraphs == Paragraphs(t)
         IN  IF Len(paragraphs) = 0 THEN Return(<<>>)
             ELSE IF max_paragraphs = 0 THEN Raise("ValueError")
             ELSE LET starts == GroupStarts(Len(paragraphs), max_paragraphs)
                  IN  Return([k \in 1..Len(starts) |->
                                 join("\n\n", Slice(paragraphs, starts[k],
                                                    starts[k] + max_paragraphs))])

\* tokenizer is None: the tokens are the words of text.split()
ChunkByTokens(t, max_tokens, overlap_tokens) ==
    IF t = "" THEN Return(<<>>)
    ELSE Return(GroupFrom(split(t), 0, max_tokens, overlap_tokens, " ", <<>>))

\* a tokenizer over whitespace-delimited words: the vocabulary is the list of
\* the distinct words of the text, a token id the position of a word in it
RECURSIVE Distinct(_, _)
Distinct(words, acc) ==
    IF Len(words) = 0 THEN acc
    ELSE Distinct(Tail(words),
                  IF \E k \in 1..Len(acc) : acc[k] = words[1] THEN acc
                  ELSE Append(acc, words[1]))
Vocabulary(t) == Distinct(split(t), <<>>)

\* tokenizer.encode(text): the ids of the words of the text
encode(t) ==
    LET words == split(t)
        vocab == Vocabulary(t)
    IN  [k \in 1..Len(words) |-> CHOOSE id \in 1..Len(vocab) : vocab[id] = words[k]]

\* tokenizer.decode(tokens): the words of the ids, joined with single spaces
decode(vocab, tokens) == join(" ", [k \in 1..Len(tokens) |-> vocab[tokens[k]]])

\* step = max(1, max_tokens - overlap_tokens) of the tokenizer branch
TokenStepNoOverlap(max_tokens, overlap_tokens) == Max2(1, max_tokens)
TokenStep(max_tokens, overlap_tokens) == Max2(1, max_tokens - overlap_tokens)

\* the while loop of the tokenizer branch: from token i (0-based)
RECURSIVE TokenWindowsFrom(_, _, _, _, _, _)
TokenWindowsFrom(vocab, tokens, i, max_tokens, overlap_tokens, acc) ==
    IF i >= Len(tokens) THEN acc
    ELSE TokenWindowsFrom(vocab, tokens, i + TokenStep(max_tokens, overlap_tokens),
                          max_tokens, overlap_tokens,
                          Append(acc, decode(vocab, Slice(tokens, i, i + max_tokens))))

\* tokenizer is given
ChunkByTokenizer(t, max_tokens, overlap_tokens) ==
    IF t = "" THEN Return(<<>>)
    ELSE Return(TokenWindowsFrom(Vocabulary(t), encode(t), 0, max_tokens,
                                 overlap_tokens, <<>>))

\* re.match(r'^###\s+(.+)$', line)
IsHeader(line) ==
    /\ Len(line) >= 5
    /\ SubSeq(line, 1, 3) = "###"
    /\ IsSpace(CharAt(line, 4))

\* if current_chunk: the joined, trimmed lines are appended unless empty
FlushUntrimmed(cs, current_chunk) ==
    IF Len(current_chunk) > 0
    THEN Append(cs, join("\n", current_chunk))
    ELSE cs
Flush(cs, current_chunk) ==
    IF Len(current_chunk) > 0
    THEN AppendChunk(cs, strip(join("\n", current_chunk)))
    ELSE cs

\* the for loop over the lines, from line k on, and the flush behind it
RECURSIVE Level3From(_, _, _, _, _)
Level3From(lines, k, cs, current_chunk, sh) ==
    IF k > Len(lines) THEN Flush(cs, current_chunk)
    ELSE IF IsHeader(lines[k])
    THEN Level3From(lines, k + 1, Flush(cs, current_chunk),
                    IF sh THEN <<>> ELSE <<lines[k]>>, sh)
    ELSE Level3From(lines, k + 1, cs, Append(current_chunk, lines[k]), sh)

SimpleLevel3Split(t, sh) == Return(Level3From(splitOn(t, "\n"), 1, <<>>, <<>>, sh))

chunk_by_sentences ==
    /\ mode = "sentences"
    /\ pc = "call"
    /\ ret' = ChunkBySentences(text, max_units, overlap_units)
    /\ pc' = "done"
    /\ UNCHANGED <<mode, chunkVars, rankVars, max_units, overlap_units, strip_headers, apiVars>>

chunk_by_paragraphs ==
    /\ mode = "paragraphs"
    /\ pc = "call"
    /\ ret' = ChunkByParagraphs(text, max_units)
    /\ pc' = "done"
    /\ UNCHANGED <<mode, chunkVars, rankVars, max_units, overlap_units, strip_headers, apiVars>>

chunk_by_tokens ==
    /\ mode = "tokens"
    /\ pc = "call"
    /\ ret' = ChunkByTokens(text, max_units, overlap_units)
    /\ pc' = "done"
    /\ UNCHANGED <<mode, chunkVars, rankVars, max_units, overlap_units, strip_headers, apiVars>>

\* chunk_by_tokens(text, max_tokens, overlap_tokens, tokenizer)
chunk_by_tokens_tokenizer ==
    /\ mode = "tokenizer"
    /\ pc = "call"
    /\ ret' = ChunkByTokenizer(text, max_units, overlap_units)
    /\ pc' = "done"
    /\ UNCHANGED <<mode, chunkVars, rankVars, max_units, overlap_units, strip_headers, apiVars>>

simple_level3_split ==
    /\ mode = "level3"
    /\ pc = "call"
    /\ ret' = SimpleLevel3Split(text, strip_headers)
    /\ pc' = "done"
    /\ UNCHANGED <<mode, chunkVars, rankVars, max_units, overlap_units, strip_headers, apiVars>>

-----------------------------------------------------------------------------
(* inputs of the splitters *)

MaxUnits == 3

SplitTexts ==
    ShortTexts \cup
    {"a. b! c? d", "a.  b.\n\na", "a\n\nb\n\n\n\nc\n\nd", "a b  c d",
     " \n\n \n", "### h\na\n###  g\nb", "a\n###\n### \n###x y", "a.b. . c.",
     "### h\n \n### g\nb\n ### x", " ### x\nb", " \n### h\n"}

Sizes == -1..MaxUnits

SplitInit ==
    /\ pc = "call"
    /\ text \in SplitTexts
    /\ \/ /\ mode = "chunk"
          /\ chunk_size \in Sizes
          /\ overlap \in Sizes
          /\ NoSplit
       \/ /\ mode \in {"sentences", "tokens", "tokenizer"}
          /\ max_units \in Sizes
          /\ overlap_units \in Sizes
          /\ strip_headers = FALSE
          /\ ret = NoRet
          /\ chunk_size = 0
          /\ overlap = 0
       \/ /\ mode = "paragraphs"
          /\ max_units \in Sizes
          /\ overlap_units = 0
          /\ strip_headers = FALSE
          /\ ret = NoRet
          /\ chunk_size = 0
          /\ overlap = 0
       \/ /\ mode = "level3"
          /\ max_units = 0
          /\ overlap_units = 0
          /\ strip_headers \in BOOLEAN
          /\ ret = NoRet
          /\ chunk_size = 0
          /\ overlap = 0
    /\ start = 0
    /\ chunks = <<>>
    /\ windows = <<>>
    /\ query = ""
    /\ stored = <<>>
    /\ rank = NoRank
    /\ NoApi

SplitNext ==
    \/ chunk_text_entry
    \/ chunk_text_loop
    \/ chunk_by_sentences
    \/ chunk_by_paragraphs
    \/ chunk_by_tokens
    \/ chunk_by_tokens_tokenizer
    \/ simple_level3_split

SpecSplit == SplitInit /\ [][SplitNext]_vars

-----------------------------------------------------------------------------
(* splitters: properties *)

Blank(t) == strip(t) = ""

\* the list the finished call returned
Returned == IF mode = "chunk" THEN chunks ELSE ret.value

\* C11: no splitter raises, whatever the text and the integer parameters, and
\* an empty or whitespace-only text gives the empty list
C11_SplittersNeverRaise ==
    pc = "done" =>
        /\ ret.raised = ""
        /\ Blank(text) => Returned = <<>>

\* the number of k = 0, 1, ... with k * step < n
CeilDiv(n, step) == (n + step - 1) \div step

\* C12: for max_sentences >= 1 and overlap_sentences >= 0 the chunks are the
\* sentences [k*step, k*step + max_sentences) for every k with k*step < n,
\* joined by a space, where step = max(1, max_sentences - overlap_sentences);
\* the call returns also when overlap_sentences >= max_sentences, and every
\* sentence is in at least one chunk
C12_SentenceWindows ==
    (mode = "sentences" /\ pc = "done" /\ max_units >= 1 /\ overlap_units >= 0) =>
        LET sentences == Sentences(text)
            n == Len(sentences)
            step == IF max_units - overlap_units >= 1
                    THEN max_units - overlap_units ELSE 1
            count == CeilDiv(n, step)
        IN  /\ ret.raised = ""
            /\ Len(ret.value) = count
            /\ \A k \in 0..(count - 1) :
                  ret.value[k + 1] =
                      join(" ", SubSeq(sentences, k * step + 1,
                                       Min2(k * step + max_units, n)))
            /\ \A j \in 0..(n - 1) :
                  \E k \in 0..(count - 1) : k * step <= j /\ j < k * step + max_units

\* four sentences, windows of two with an overlap as large as the window
C12_Witness ==
    /\ mode = "sentences"
    /\ pc = "done"
    /\ Len(Sentences(text)) = 4
    /\ max_units = 2
    /\ overlap_units >= max_units
    /\ ret.value = <<"a. b!", "b! c?", "c? d", "d">>

\* the paragraphs of all the chunks, in order
RECURSIVE ParagraphsOfChunks(_)
ParagraphsOfChunks(cs) ==
    IF Len(cs) = 0 THEN <<>>
    ELSE splitOn(cs[1], "\n\n") \o ParagraphsOfChunks(Tail(cs))

\* C13: for max_paragraphs >= 1 the chunks partition the non-empty trimmed
\* paragraphs into consecutive groups of max_paragraphs, the last possibly
\* shorter: ceil(n / max_paragraphs) chunks, every paragraph in exactly one
\* chunk, in document order
C13_ParagraphPartition ==
    (mode = "paragraphs" /\ pc = "done" /\ max_units >= 1) =>
        LET paragraphs == Paragraphs(text)
            n == Len(paragraphs)
            count == CeilDiv(n, max_units)
        IN  /\ ret.raised = ""
            /\ Len(ret.value) = count
            /\ ParagraphsOfChunks(ret.value) = paragraphs
            /\ \A k \in 1..count :
                  LET size == Len(splitOn(ret.value[k], "\n\n"))
                  IN  IF k < count THEN size = max_units
                      ELSE size >= 1 /\ size <= max_units

\* four paragraphs in groups of three: a full group and a shorter last one
C13_Witness ==
    /\ mode = "paragraphs"
    /\ pc = "done"
    /\ Len(Paragraphs(text)) = 4
    /\ max_units = 3
    /\ ret.value = <<"a\n\nb\n\nc", "d">>

\* C23: chunk_by_tokens applies the same windowing with and without a
\* tokenizer: with a tokenizer whose encode splits on whitespace and whose
\* decode joins with single spaces, both variants return the same chunk list
\* for every text, max_tokens >= 1 and overlap_tokens >= 0.
C23_TokenizerAgrees ==
    (mode = "tokenizer" /\ pc = "done" /\ max_units >= 1 /\ overlap_units >= 0) =>
        ret = ChunkByTokens(text, max_units, overlap_units)

\* overlapping windows of two tokens over four words
C23_Witness ==
    /\ mode = "tokenizer" /\ pc = "done"
    /\ text = "a b  c d" /\ max_units = 2 /\ overlap_units = 1
    /\ ret = Return(<<"a b", "b c", "c d", "d">>)

\* the lines of the text given to _simple_level3_split and the (1-based)
\* positions of its header lines
InputLines == splitOn(text, "\n")
Headers == {k \in 1..Len(InputLines) : IsHeader(InputLines[k])}

\* the lines after line h (0 for the start of the text) up to the next header
Section(h) ==
    {k \in (h + 1)..Len(InputLines) : \A g \in Headers : g <= h \/ g > k}
HasText(h) == \E k \in Section(h) : ~Blank(InputLines[k])

\* the header lines among the lines of a chunk, by position
HeadersOf(chunk) ==
    LET lines == splitOn(chunk, "\n")
    IN  {k \in 1..Len(lines) : IsHeader(lines[k])}

Level3Done == mode = "level3" /\ pc = "done"

\* with strip_headers false
KeepsHeaders ==
    /\ \A i \in 1..Len(ret.value) : HeadersOf(ret.value[i]) \subseteq {1}
    /\ Len(ret.value) = Cardinality(Headers) + (IF HasText(0) THEN 1 ELSE 0)

\* with strip_headers true: a chunk for every header, and for the start of
\* the text, that is followed by text before the next header
ChunkPerSection ==
    Len(ret.value) = Cardinality({h \in Headers \cup {0} : HasText(h)})

-----------------------------------------------------------------------------
(* the libraries and documents tables, and the services over them          *)
(* (c7_mcp/services/library.py, c7_mcp/services/document.py)               *)

\* Python's None, where an argument or a result may be None or a string
None == "<None>"

\* the n-th value of uuid.uuid4(), in the eight characters the ids keep
Digits == "0123456789"
Uuid(n) == "0000000" \o CharAt(Digits, n + 1)

\* name.lower().replace(' ', '-')
NormalizedName(name) == join("-", splitOn(lower(name), " "))

\* the outcome of a service call: the exception raised (raised is "" when
\* the call returned), the value returned, and the two tables after the call
Done(value, libs, docs) ==
    [raised |-> "", message |-> "", value |-> value,
     libraries |-> libs, documents |-> docs]
Failed(exception, message, libs, docs) ==
    [raised |-> exception, message |-> message, value |-> None,
     libraries |-> libs, documents |-> docs]

\* exceptions.py: the classes derived from NotFoundError
NotFoundErrors ==
    {"NotFoundError", "LibraryNotFoundError", "DocumentNotFoundError",
     "EmbeddingsNotFoundError"}

LibraryNotFound(library_id, libs, docs) ==
    Failed("LibraryNotFoundError", "Library '" \o library_id \o "' not found", libs, docs)
DocumentNotFound(doc_id, libs, docs) ==
    Failed("DocumentNotFoundError", "Document '" \o doc_id \o "' not found", libs, docs)

\* table.search().where("<column> = '<value>'"): the matching rows, in table order
LibrariesById(libs, library_id) == SelectSeq(libs, LAMBDA r : r.id = library_id)
LibrariesByName(libs, name, ecosystem) ==
    SelectSeq(libs, LAMBDA r : r.name = name /\ r.ecosystem = ecosystem)
ChunksOf(docs, doc_id) == SelectSeq(docs, LAMBDA r : r.document_id = doc_id)
ChunksOfLibrary(docs, library_id) == SelectSeq(docs, LAMBDA r : r.library_id = library_id)

\* table.delete("<column> = '<value>'")
DeleteLibraryRows(libs, library_id) == SelectSeq(libs, LAMBDA r : r.id # library_id)
DeleteChunksNone(docs, doc_id) == docs
DeleteChunks(docs, doc_id) == SelectSeq(docs, LAMBDA r : r.document_id # doc_id)

AlreadyExists(name, ecosystem, libs, docs) ==
    Failed("ValueError",
           "Library '" \o name \o "' already exists in ecosystem '" \o ecosystem \o "'",
           libs, docs)
LibraryMissing(library_id, libs, docs) ==
    Failed("ValueError", "Library '" \o library_id \o "' not found", libs, docs)

CreateLibrary(libs, docs, n, now, name, ecosystem, description, context7_id) ==
    IF Len(LibrariesByName(libs, name, ecosystem)) > 0
    THEN AlreadyExists(name, ecosystem, libs, docs)
    ELSE LET library_data ==
                 [id |-> "lib-" \o ecosystem \o "-" \o NormalizedName(name)
                             \o "-" \o Uuid(n),
                  name |-> name,
                  context7_id |-> IF context7_id = None
                                  THEN "/" \o ecosystem \o "/" \o NormalizedName(name)
                                  ELSE context7_id,
                  ecosystem |-> ecosystem,
                  description |-> description,
                  created_at |-> now,
                  updated_at |-> now,
                  document_count |-> 0]
         IN  Done(library_data, Append(libs, library_data), docs)

\* the uniqueness check of a rename: only when the name changes, and among
\* the libraries of the target's ecosystem
RenameUnchecked(libs, lib, name) == FALSE
RenameConflict(libs, lib, name) ==
    name # lib.name /\ Len(LibrariesByName(libs, name, lib.ecosystem)) > 0

\* the row is deleted and added again with the new name and description
RewriteCreated(libs, docs, lib, now, name, description) ==
    LET updated_data == [lib EXCEPT !.name = name, !.description = description,
                                    !.created_at = now, !.updated_at = now]
    IN  Done(updated_data, Append(DeleteLibraryRows(libs, lib.id), updated_data), docs)
Rewrite(libs, docs, lib, now, name, description) ==
    LET updated_data == [lib EXCEPT !.name = name, !.description = description,
                                    !.updated_at = now]
    IN  Done(updated_data, Append(DeleteLibraryRows(libs, lib.id), updated_data), docs)

UpdateLibrary(libs, docs, library_id, now, name, description) ==
    LET existing == LibrariesById(libs, library_id)
    IN  IF Len(existing) = 0 THEN LibraryMissing(library_id, libs, docs)
        ELSE IF RenameConflict(libs, existing[1], name)
        THEN AlreadyExists(name, existing[1].ecosystem, libs, docs)
        ELSE Rewrite(libs, docs, existing[1], now, name, description)

PartialUpdateLibrary(libs, docs, library_id, now, name, description) ==
    LET existing == LibrariesById(libs, library_id)
    IN  IF Len(existing) = 0 THEN LibraryMissing(library_id, libs, docs)
        ELSE LET lib == existing[1]
                 new_name == IF name # None THEN name ELSE lib.name
                 new_description ==
                     IF description # None THEN description ELSE lib.description
             IN  IF name # None /\ RenameConflict(libs, lib, name)
                 THEN AlreadyExists(name, lib.ecosystem, libs, docs)
                 ELSE Rewrite(libs, docs, lib, now, new_name, new_description)

DeleteLibrary(libs, docs, library_id) ==
    IF Len(LibrariesById(libs, library_id)) = 0
    THEN LibraryMissing(library_id, libs, docs)
    ELSE IF Len(ChunksOfLibrary(docs, library_id)) > 0
    THEN Failed("ValueError",
                "Library '" \o library_id \o "' has associated documents. "
                    \o "Delete all documents first.",
                libs, docs)
    ELSE Done(TRUE, DeleteLibraryRows(libs, library_id), docs)

\* models.py: vector: Vector(2560)
EmbeddingDim == 2560

\* A vector is a list of dim equal components; value is the component.
\* zero_vector = [0.0] * 2560
ZeroVector == [dim |-> EmbeddingDim, value |-> "0.0"]

\* documents.add([document_data])
AddChunk(docs, document_data) == Append(docs, document_data)

\* the single chunk of a document without real embeddings
PlainChunk(doc_id, library_id, title, content) ==
    [document_id |-> doc_id, library_id |-> library_id, title |-> title,
     text |-> content, vector |-> ZeroVector, has_real_embeddings |-> FALSE,
     embedding_model |-> None]

\* the DocumentData a call returns
DocumentData(chunk, has_embeddings) ==
    [id |-> chunk.document_id, title |-> chunk.title, library_id |-> chunk.library_id,
     content |-> chunk.text, has_embeddings |-> has_embeddings]

CreateDocument(libs, docs, n, title, content, library_id) ==
    IF Len(LibrariesById(libs, library_id)) = 0
    THEN LibraryNotFound(library_id, libs, docs)
    ELSE LET document_data == PlainChunk("doc-" \o Uuid(n), library_id, title, content)
         IN  Done(DocumentData(document_data, FALSE), libs, AddChunk(docs, document_data))

\* results[:limit] of a table scan: the rows in the order they were added
Limit(rows, limit) == SubSeq(rows, 1, Min2(limit, Len(rows)))

\* seen_docs: the first chunk of every document of results, in order
RECURSIVE SeenDocs(_, _)
SeenDocs(results, seen) ==
    IF Len(results) = 0 THEN seen
    ELSE SeenDocs(Tail(results),
                  IF \E k \in 1..Len(seen) : seen[k].id = results[1].document_id
                  THEN seen
                  ELSE Append(seen, DocumentData(results[1],
                                                 results[1].has_real_embeddings)))

\* list(seen_docs.values())[offset : offset + limit]
ListDocuments(docs, library_id, limit, offset) ==
    LET results == IF library_id # None
                   THEN Limit(ChunksOfLibrary(docs, library_id), limit)
                   ELSE Limit(docs, limit)
        seen_docs == SeenDocs(results, <<>>)
    IN  SubSeq(seen_docs, offset + 1, Min2(offset + limit, Len(seen_docs)))

GetDocument(libs, docs, doc_id) ==
    LET results == ChunksOf(docs, doc_id)
    IN  IF Len(results) = 0 THEN DocumentNotFound(doc_id, libs, docs)
        ELSE Done(DocumentData(results[1], results[1].has_real_embeddings), libs, docs)

GetContent(libs, docs, doc_id) ==
    LET found == GetDocument(libs, docs, doc_id)
    IN  IF found.raised # "" THEN found ELSE Done(found.value.content, libs, docs)

GetEmbeddings(libs, docs, doc_id) ==
    LET results == ChunksOf(docs, doc_id)
    IN  IF Len(results) = 0 THEN DocumentNotFound(doc_id, libs, docs)
        ELSE IF ~results[1].has_real_embeddings
        THEN Failed("EmbeddingsNotFoundError",
                    "Document '" \o doc_id \o "' has no embeddings", libs, docs)
        ELSE Done([embeddings |-> results[1].vector,
                   dimension |-> results[1].vector.dim,
                   model |-> results[1].embedding_model], libs, docs)

\* the chunk update_content adds again: new text, zero vector, no embeddings
KeepEmbeddings(first_chunk, content) == [first_chunk EXCEPT !.text = content]
ResetEmbeddings(first_chunk, content) ==
    PlainChunk(first_chunk.document_id, first_chunk.library_id,
               first_chunk.title, content)

UpdateContent(libs, docs, doc_id, content) ==
    LET results == ChunksOf(docs, doc_id)
    IN  IF Len(results) = 0 THEN DocumentNotFound(doc_id, libs, docs)
        ELSE LET document_data == ResetEmbeddings(results[1], content)
             IN  Done(DocumentData(document_data, FALSE), libs,
                      AddChunk(DeleteChunks(docs, doc_id), document_data))

FullUpdateDocument(libs, docs, doc_id, title, content, library_id) ==
    IF Len(ChunksOf(docs, doc_id)) = 0 THEN DocumentNotFound(doc_id, libs, docs)
    ELSE IF Len(LibrariesById(libs, library_id)) = 0
    THEN LibraryNotFound(library_id, libs, docs)
    ELSE LET document_data == PlainChunk(doc_id, library_id, title, content)
         IN  Done(DocumentData(document_data, FALSE), libs,
                  AddChunk(DeleteChunks(docs, doc_id), document_data))

UpdateTitle(libs, docs, doc_id, title) ==
    LET results == ChunksOf(docs, doc_id)
    IN  IF Len(results) = 0 THEN DocumentNotFound(doc_id, libs, docs)
        ELSE LET document_data == [results[1] EXCEPT !.title = title]
             IN  Done(DocumentData(document_data, results[1].has_real_embeddings), libs,
                      AddChunk(DeleteChunks(docs, doc_id), document_data))

\* embeddings is the vector given; model may be empty
UpdateEmbeddings(libs, docs, doc_id, embeddings, model) ==
    LET results == ChunksOf(docs, doc_id)
    IN  IF Len(results) = 0 THEN DocumentNotFound(doc_id, libs, docs)
        ELSE IF embeddings.dim # results[1].vector.dim
        THEN Failed("EmbeddingDimensionError", "Embedding dimension mismatch",
                    libs, docs)
        ELSE LET document_data ==
                     [results[1] EXCEPT !.vector = embeddings,
                                        !.has_real_embeddings = TRUE,
                                        !.embedding_model =
                                            IF model # "" THEN model ELSE None]
             IN  Done(DocumentData(document_data, TRUE), libs,
                      AddChunk(DeleteChunks(docs, doc_id), document_data))

\* services/document.py update_library: the document moves to another
\* library; the row keeps its title, text, vector and metadata
UpdateDocumentLibraryUnchecked(libs, docs, doc_id, library_id) ==
    LET results == ChunksOf(docs, doc_id)
    IN  IF Len(results) = 0 THEN DocumentNotFound(doc_id, libs, docs)
        ELSE LET document_data == [results[1] EXCEPT !.library_id = library_id]
             IN  Done(DocumentData(document_data, results[1].has_real_embeddings), libs,
                      AddChunk(DeleteChunks(docs, doc_id), document_data))
UpdateDocumentLibrary(libs, docs, doc_id, library_id) ==
    LET results == ChunksOf(docs, doc_id)
    IN  IF Len(results) = 0 THEN DocumentNotFound(doc_id, libs, docs)
        ELSE IF Len(LibrariesById(libs, library_id)) = 0
        THEN LibraryNotFound(library_id, libs, docs)
        ELSE LET document_data == [results[1] EXCEPT !.library_id = library_id]
             IN  Done(DocumentData(document_data, results[1].has_real_embeddings), libs,
                      AddChunk(DeleteChunks(docs, doc_id), document_data))

DeleteDocument(libs, docs, doc_id) ==
    IF Len(ChunksOf(docs, doc_id)) = 0 THEN DocumentNotFound(doc_id, libs, docs)
    ELSE Done(TRUE, libs, DeleteChunks(docs, doc_id))

-----------------------------------------------------------------------------
(* the calls: library service, document endpoints and document service     *)

\* routers/documents.py, get and content endpoints: a ValueError of the
\* service is answered with 404, any other exception with 500
StatusOf(out, success) ==
    IF out.raised = "" THEN success
    ELSE IF out.raised = "ValueError" THEN 404
    ELSE 500

\* routers/documents.py, create and update endpoints: a ValueError is
\* answered with 404 when its message says "not found", else with 400
StatusByMessage(out, success) ==
    IF out.raised = "" THEN success
    ELSE IF out.raised = "ValueError"
    THEN IF Contains(lower(out.message), "not found") THEN 404 ELSE 400
    ELSE 500

\* the call has no HTTP layer in front of it
NoStatus == 0

\* a JSON-RPC id that is null or absent
NullId == [type |-> "null", int |-> 0, str |-> ""]

\* the request and the body of a call that is not a JSON-RPC call
NoRequest == [id |-> NullId, method |-> ""]
NoResponse == [jsonrpc |-> "", result |-> [content |-> <<>>], has_id |-> FALSE,
               id |-> NullId]

\* no page of documents was asked for
NoListing == [limit |-> 0, offset |-> 0, value |-> <<>>]

\* the tables after the call and the record of the call
Answer(op, arg, out, status, uuids) ==
    /\ libraries' = out.libraries
    /\ documents' = out.documents
    /\ issued' = issued + uuids
    /\ last' = [op |-> op, arg |-> arg, raised |-> out.raised,
                message |-> out.message, status |-> status, requests |-> <<>>,
                listing |-> NoListing, request |-> NoRequest, response |-> NoResponse]
    /\ UNCHANGED <<mode, pc, chunkVars, rankVars, splitVars>>

\* one for a call that drew a uuid
Drawn(out) == IF out.raised = "" THEN 1 ELSE 0

MaxIssued == 2
\* the runs that list documents need a library and two documents
IssuedBound == IF mode = "list" THEN MaxIssued + 1 ELSE MaxIssued
\* the page sizes and offsets asked for (limit: ge=1, offset: ge=0)
MaxLimit == 2
MaxOffset == 2

Names == {"My Lib", "my-lib"}
Ecosystems == {"pypi", "npm"}
Descriptions == {"docs"}
GivenContext7Ids == {None}
Titles == {"Guide", "Intro"}
Contents == {"Alpha beta", "gamma"}
Vectors ==
    {[dim |-> EmbeddingDim, value |-> "0.5"],
     [dim |-> EmbeddingDim, value |-> "0.1"],
     [dim |-> 3, value |-> "0.5"]}
Models == {"test-model"}

\* the ids a caller may name: every stored one and one that is not stored
\* the values of datetime.now(): rows are created at Epoch; the updates in
\* the runs of the library services alone happen then or later
Epoch == 1
Times == IF mode = "lib" THEN {Epoch, Epoch + 1} ELSE {Epoch}

LibraryIds == {libraries[i].id : i \in 1..Len(libraries)} \cup {"nonexistent-lib-xyz"}
DocumentIds ==
    {documents[i].document_id : i \in 1..Len(documents)} \cup {"nonexistent-doc-xyz"}

create_library ==
    /\ mode \in {"api", "mcp", "lib", "docs", "list"}
    /\ issued < IssuedBound
    /\ \E name \in Names, ecosystem \in Ecosystems, context7_id \in GivenContext7Ids :
          LET out == CreateLibrary(libraries, documents, issued + 1, Epoch, name,
                                   ecosystem, "", context7_id)
          IN  Answer("create_library", name, out, NoStatus, Drawn(out))

update_library ==
    /\ mode \in {"api", "lib"}
    /\ \E library_id \in LibraryIds, name \in Names, description \in Descriptions,
          now \in Times :
          Answer("update_library", library_id,
                 UpdateLibrary(libraries, documents, library_id, now, name, description),
                 NoStatus, 0)

partial_update_library ==
    /\ mode \in {"api", "lib"}
    /\ \E library_id \in LibraryIds, name \in Names \cup {None},
          description \in Descriptions \cup {None}, now \in Times :
          Answer("partial_update_library", library_id,
                 PartialUpdateLibrary(libraries, documents, library_id, now, name,
                                      description),
                 NoStatus, 0)

delete_library ==
    /\ mode \in {"api", "lib", "docs"}
    /\ \E library_id \in LibraryIds :
          Answer("delete_library", library_id,
                 DeleteLibrary(libraries, documents, library_id), NoStatus, 0)

\* POST /api/v1/documents
create_document ==
    /\ mode \in {"api", "mcp", "docs", "list"}
    /\ issued < IssuedBound
    /\ \E title \in Titles, content \in Contents, library_id \in LibraryIds :
          LET out == CreateDocument(libraries, documents, issued + 1, title, content,
                                    library_id)
          IN  Answer("create_document", library_id, out, StatusByMessage(out, 201),
                     Drawn(out))

\* GET /api/v1/documents/{doc_id}
get_document ==
    /\ mode = "api"
    /\ \E doc_id \in DocumentIds :
          LET out == GetDocument(libraries, documents, doc_id)
          IN  Answer("get_document", doc_id, out, StatusOf(out, 200), 0)

\* GET /api/v1/documents/{doc_id}/content
get_document_content ==
    /\ mode = "api"
    /\ \E doc_id \in DocumentIds :
          LET out == GetContent(libraries, documents, doc_id)
          IN  Answer("get_document_content", doc_id, out, StatusOf(out, 200), 0)

\* GET /api/v1/documents/{doc_id}/embeddings
get_document_embeddings ==
    /\ mode = "api"
    /\ \E doc_id \in DocumentIds :
          LET out == GetEmbeddings(libraries, documents, doc_id)
          IN  Answer("get_document_embeddings", doc_id, out, StatusOf(out, 200), 0)

\* PUT /api/v1/documents/{doc_id}
update_document ==
    /\ mode \in {"api", "docs"}
    /\ \E doc_id \in DocumentIds, title \in Titles, content \in Contents,
          library_id \in LibraryIds :
          LET out == FullUpdateDocument(libraries, documents, doc_id, title, content,
                                        library_id)
          IN  Answer("update_document", doc_id, out, StatusByMessage(out, 200), 0)

\* PATCH /api/v1/documents/{doc_id}/content
update_document_content ==
    /\ mode = "api"
    /\ \E doc_id \in DocumentIds, content \in Contents :
          LET out == UpdateContent(libraries, documents, doc_id, content)
          IN  Answer("update_document_content", doc_id, out, StatusOf(out, 200), 0)

update_title ==
    /\ mode = "api"
    /\ \E doc_id \in DocumentIds, title \in Titles :
          Answer("update_title", doc_id,
                 UpdateTitle(libraries, documents, doc_id, title), NoStatus, 0)

update_embeddings ==
    /\ mode = "api"
    /\ \E doc_id \in DocumentIds, embeddings \in Vectors, model \in Models :
          Answer("update_embeddings", doc_id,
                 UpdateEmbeddings(libraries, documents, doc_id, embeddings, model),
                 NoStatus, 0)

delete_document ==
    /\ mode \in {"api", "docs"}
    /\ \E doc_id \in DocumentIds :
          Answer("delete_document", doc_id,
                 DeleteDocument(libraries, documents, doc_id), NoStatus, 0)

\* GET /api/v1/documents?library_id=&limit=&offset=
list_documents ==
    /\ mode = "list"
    /\ \E library_id \in LibraryIds \cup {None}, limit \in 1..MaxLimit,
          offset \in 0..MaxOffset :
          last' = [op |-> "list_documents", arg |-> library_id, raised |-> "",
                   message |-> "", status |-> 200, requests |-> <<>>,
                   listing |-> [limit |-> limit, offset |-> offset,
                                value |-> ListDocuments(documents, library_id,
                                                        limit, offset)],
                   request |-> NoRequest, response |-> NoResponse]
    /\ UNCHANGED <<mode, pc, chunkVars, rankVars, splitVars, libraries, documents,
                   issued>>

-----------------------------------------------------------------------------
(* POST /mcp (c7_mcp/routers/mcp.py) and the tools behind it               *)
(* (c7_mcp/services/mcp.py)                                                *)

\* a JSON-RPC id: an integer, a string, or null (also when the key is absent)
IntId(n) == [type |-> "int", int |-> n, str |-> ""]
StrId(s) == [type |-> "str", int |-> 0, str |-> s]

\* if req_id is not None
IdIfTruthy(req_id) ==
    req_id.type # "null" /\ req_id # IntId(0) /\ req_id # StrId("")
IdGiven(req_id) == req_id.type # "null"

\* _jsonrpc_result(req_id, result)
JsonRpcResult(req_id, result) ==
    [jsonrpc |-> "2.0", result |-> result, has_id |-> IdGiven(req_id),
     id |-> IF IdGiven(req_id) THEN req_id ELSE NullId]

\* what the endpoint does: the HTTP status, the body, and the tables
Reply(status, response, libs, docs, uuids) ==
    [status |-> status, response |-> response, libraries |-> libs,
     documents |-> docs, uuids |-> uuids, requests |-> <<>>]

\* the same, after the URLs in urls were requested
Contacting(urls, reply) == [reply EXCEPT !.requests = urls]

Context7Mcp == "https://mcp.context7.com/mcp"

ToolNames == <<"resolve-library-id", "query-docs", "fetch-library-docs">>
DefaultProtocol == "2024-11-05"

\* the lines of one library in the answer of resolve_library_id
LibraryLines(lib) ==
    <<"- Title: " \o lib.name,
      "- Context7-compatible library ID: " \o lib.context7_id>>
        \o (IF lib.description # "" THEN <<"- Description: " \o lib.description>>
            ELSE <<>>)
        \o <<"- Benchmark Score: 0", "">>

RECURSIVE AllLibraryLines(_)
AllLibraryLines(results) ==
    IF Len(results) = 0 THEN <<>>
    ELSE LibraryLines(results[1]) \o AllLibraryLines(Tail(results))

\* every stored library has popularity_score 0, so the stable sort by score
\* keeps the table order
ResolveLibraryId(libs, library_name) ==
    LET exact == SelectSeq(libs, LAMBDA r : r.name = library_name)
        like == SelectSeq(libs, LAMBDA r : Contains(r.name, library_name))
        results == IF Len(exact) > 0 THEN exact ELSE like
    IN  IF Len(results) = 0
        THEN "No libraries found matching '" \o library_name \o "'"
        ELSE strip(join("\n", AllLibraryLines(results)))

QueryDocsByIdOnly(libs, docs, library_id, q) ==
    LET lib_results == LibrariesById(libs, library_id)
    IN  IF Len(lib_results) = 0 THEN "Library '" \o library_id \o "' not found"
        ELSE LET rows == ChunksOfLibrary(docs, lib_results[1].id)
             IN  IF Len(rows) = 0 THEN NoDocs(lib_results[1].name)
                 ELSE RankCall(q, rows).result
QueryDocs(libs, docs, library_id, q) ==
    LET by_context7 == SelectSeq(libs, LAMBDA r : r.context7_id = library_id)
        lib_results == IF Len(by_context7) > 0 THEN by_context7
                       ELSE LibrariesById(libs, library_id)
    IN  IF Len(lib_results) = 0 THEN "Library '" \o library_id \o "' not found"
        ELSE LET rows == ChunksOfLibrary(docs, lib_results[1].id)
             IN  IF Len(rows) = 0 THEN NoDocs(lib_results[1].name)
                 ELSE RankCall(q, rows).result

\* _find_local_library_by_name_or_context7: the library found, as a list of
\* at most one row
FindLocalNothing(libs, library_name, context7_id) == <<>>
FindLocal(libs, library_name, context7_id) ==
    LET by_context7 == IF context7_id # None /\ context7_id # ""
                       THEN SelectSeq(libs, LAMBDA r : r.context7_id = context7_id)
                       ELSE <<>>
        by_name == SelectSeq(libs, LAMBDA r : r.name = library_name)
    IN  IF Len(by_context7) > 0 THEN <<by_context7[1]>>
        ELSE IF Len(by_name) > 0 THEN <<by_name[1]>>
        ELSE <<>>

ExistsLocally(lib) ==
    "Library '" \o lib.name \o "' already exists locally (id: " \o lib.id
        \o ", context7_id: " \o lib.context7_id \o "). Skipping remote fetch."

\* the message of a call with fetch_if_missing false; the code writes the
\* last two words between backquotes, which a string here cannot hold
FetchDisabled(library_name) ==
    "Library '" \o library_name \o "' was not found locally. "
        \o "Remote fetch is disabled unless you explicitly pass "
        \o "fetchIfMissing: true."

\* parts = [p for p in context7_id.split("/") if p]
EcosystemOf(context7_id) ==
    LET parts == SelectSeq(splitOn(context7_id, "/"), LAMBDA p : p # "")
    IN  IF Len(parts) > 0 THEN parts[1] ELSE "unknown"

\* document_service.fetch_document: fetched is what the URL gave
FetchDocument(libs, docs, n, title, url, library_id, fetched) ==
    IF Len(LibrariesById(libs, library_id)) = 0
    THEN LibraryNotFound(library_id, libs, docs)
    ELSE IF ~fetched.ok
    THEN Failed("URLFetchError",
                "Failed to fetch URL '" \o url \o "': " \o fetched.error, libs, docs)
    ELSE LET document_data == PlainChunk("doc-" \o Uuid(n), library_id, title,
                                         fetched.content)
         IN  Done(DocumentData(document_data, FALSE), libs, AddChunk(docs, document_data))

\* fetch_library_docs: remote is the answer of Context7's resolve-library-id,
\* fetched the answer of the documentation URL; the result is the text and
\* the tables
FetchLibraryDocs(libs, docs, n, now, library_name, q, fetch_if_missing, remote, fetched) ==
    LET existing == FindLocal(libs, library_name, None)
    IN  IF Len(existing) > 0 THEN Reply(200, ExistsLocally(existing[1]), libs, docs, 0)
        ELSE IF ~fetch_if_missing
        THEN Reply(200, FetchDisabled(library_name), libs, docs, 0)
        ELSE IF ~remote.ok
        THEN Contacting(<<Context7Mcp>>,
                        Reply(200, "Failed to resolve '" \o library_name
                                     \o "' via Context7: " \o remote.error,
                              libs, docs, 0))
        ELSE LET after == FindLocal(libs, remote.title, remote.context7_id)
                 ecosystem == EcosystemOf(remote.context7_id)
                 created == CreateLibrary(libs, docs, n + 1, now, remote.title, ecosystem,
                                          remote.description, remote.context7_id)
                 url == "https://context7.com" \o remote.context7_id \o "/llms.txt"
                 doc == FetchDocument(created.libraries, docs, n + 2,
                                      remote.title \o " Documentation", url,
                                      created.value.id, fetched)
             IN  IF Len(after) > 0
                 THEN Contacting(<<Context7Mcp>>,
                                 Reply(200, ExistsLocally(after[1]), libs, docs, 0))
                 ELSE IF created.raised # ""
                 THEN Contacting(<<Context7Mcp>>,
                                 Reply(200, "Failed to create local library for '"
                                              \o remote.title \o "': " \o created.message,
                                       libs, docs, 0))
                 ELSE IF doc.raised # ""
                 THEN Contacting(<<Context7Mcp, url>>,
                                 Reply(200, "Library '" \o remote.title
                                              \o "' was created (id: " \o created.value.id
                                              \o "), but docs fetch from " \o url
                                              \o " failed: " \o doc.message,
                                       created.libraries, docs, 1))
                 ELSE Contacting(<<Context7Mcp, url>>,
                                 Reply(200, "Fetched '" \o remote.title
                                              \o "' from Context7 and ingested docs. "
                                              \o "library_id=" \o created.value.id
                                              \o ", context7_id=" \o remote.context7_id
                                              \o ", document_id=" \o doc.value.id \o ".",
                                       doc.libraries, doc.documents, 2))

\* the text content of a tools/call result
ToolResult(result_text) == [content |-> <<[type |-> "text", text |-> result_text]>>]

\* str.startswith
startswith(s, prefix) == Len(s) >= Len(prefix) /\ SubSeq(s, 1, Len(prefix)) = prefix

\* mcp_endpoint(request)
McpEndpoint(libs, docs, n, now, request, remote, fetched) ==
    LET req_id == request.id
        method == request.method
        params == request.params
        arguments == params.arguments
        reject(status) == Reply(status, NoResponse, libs, docs, 0)
        answer(result_text) ==
            Reply(200, JsonRpcResult(req_id, ToolResult(result_text)), libs, docs, 0)
    IN  IF method = "initialize"
        THEN Reply(200,
                   JsonRpcResult(req_id,
                       [protocolVersion |-> IF params.protocolVersion # None
                                            THEN params.protocolVersion
                                            ELSE DefaultProtocol,
                        serverInfo |-> [name |-> "simple-c7-mcp", version |-> "0.1.0"]]),
                   libs, docs, 0)
        ELSE IF method = "tools/list"
        THEN Reply(200, JsonRpcResult(req_id, [tools |-> ToolNames]), libs, docs, 0)
        ELSE IF method # None /\ startswith(method, "notifications/")
        THEN reject(202)
        ELSE IF method # "tools/call" THEN reject(400)
        ELSE IF params.name = None \/ ~params.given THEN reject(422)
        ELSE IF params.name = "resolve-library-id"
        THEN IF arguments.libraryName = None \/ arguments.query = None THEN reject(422)
             ELSE answer(ResolveLibraryId(libs, arguments.libraryName))
        ELSE IF params.name = "query-docs"
        THEN IF arguments.libraryId = None \/ arguments.query = None THEN reject(422)
             ELSE answer(QueryDocs(libs, docs, arguments.libraryId, arguments.query))
        ELSE IF params.name = "fetch-library-docs"
        THEN IF arguments.libraryName = None THEN reject(422)
             ELSE LET done == FetchLibraryDocs(libs, docs, n, now, arguments.libraryName,
                                               arguments.query, arguments.fetchIfMissing,
                                               remote, fetched)
                  IN  Contacting(done.requests,
                                 Reply(200, JsonRpcResult(req_id, ToolResult(done.response)),
                                       done.libraries, done.documents, done.uuids))
        ELSE reject(400)

\* the requests sent: arguments holds every key a tool reads, None for a key
\* that is absent, and given says that params has a dict of arguments
Arguments(libraryName, libraryId, q, fetchIfMissing) ==
    [libraryName |-> libraryName, libraryId |-> libraryId, query |-> q,
     fetchIfMissing |-> fetchIfMissing]
ToolCall(req_id, name, arguments) ==
    [id |-> req_id, method |-> "tools/call",
     params |-> [name |-> name, given |-> TRUE, arguments |-> arguments,
                 protocolVersion |-> None]]
MissingArguments(req_id, name) ==
    [ToolCall(req_id, name, Arguments(None, None, None, FALSE))
        EXCEPT !.params.given = FALSE]
Other(req_id, method) ==
    [MissingArguments(req_id, None) EXCEPT !.method = method]

RequestIds == {NullId, IntId(0), IntId(42), StrId(""), StrId("abc-123")}
OtherMethods ==
    {"initialize", "tools/list", "notifications/initialized", "tools/initialize",
     "foobar", None}
Queried == "beta"

Requests ==
    {Other(IntId(1), method) : method \in OtherMethods}
        \cup {ToolCall(req_id, "resolve-library-id", Arguments("zzz", None, Queried, FALSE)) :
                 req_id \in RequestIds}
        \cup {ToolCall(IntId(1), "resolve-library-id", Arguments(name, None, Queried, FALSE)) :
                 name \in {"My Lib", "Lib", None}}
        \cup {ToolCall(IntId(1), "query-docs", Arguments(None, library_id, Queried, FALSE)) :
                 library_id \in (LibraryIds \cup {"/pypi/my-lib", None})}
        \cup {ToolCall(IntId(1), "fetch-library-docs",
                       Arguments(name, None, Queried, fetchIfMissing)) :
                 name \in {"my-lib", None}, fetchIfMissing \in BOOLEAN}
        \cup {ToolCall(IntId(1), "no-such-tool", Arguments(None, None, None, FALSE)),
              ToolCall(IntId(1), None, Arguments(None, None, None, FALSE)),
              MissingArguments(IntId(1), "query-docs")}

RemoteAnswers ==
    {[ok |-> FALSE, error |-> "timed out", title |-> "", context7_id |-> "",
      description |-> ""],
     [ok |-> TRUE, error |-> "", title |-> "My Lib", context7_id |-> "/pypi/my-lib",
      description |-> "docs"]}
FetchAnswers ==
    {[ok |-> FALSE, error |-> "HTTP Error 404: Not Found", content |-> ""],
     [ok |-> TRUE, error |-> "", content |-> "Alpha beta"]}

\* POST /api/v1/documents/fetch
fetch_document ==
    /\ mode = "docs"
    /\ issued < MaxIssued
    /\ \E title \in Titles, library_id \in LibraryIds, fetched \in FetchAnswers :
          LET out == FetchDocument(libraries, documents, issued + 1, title,
                                   "https://example.com/docs.md", library_id, fetched)
          IN  Answer("fetch_document", library_id, out, StatusByMessage(out, 201),
                     Drawn(out))

\* services/document.py update_library(doc_id, library_id)
update_document_library ==
    /\ mode = "docs"
    /\ \E doc_id \in DocumentIds, library_id \in LibraryIds :
          Answer("update_document_library", doc_id,
                 UpdateDocumentLibrary(libraries, documents, doc_id, library_id),
                 NoStatus, 0)

mcp_endpoint ==
    /\ mode = "mcp"
    /\ \E request \in Requests, remote \in RemoteAnswers, fetched \in FetchAnswers :
          /\ request.params.name # "fetch-library-docs" =>
                 /\ remote = CHOOSE r \in RemoteAnswers : ~r.ok
                 /\ fetched = CHOOSE f \in FetchAnswers : ~f.ok
          /\ \E reply \in {McpEndpoint(libraries, documents, issued, Epoch, request,
                                       remote, fetched)} :
                 /\ issued + reply.uuids <= MaxIssued
                 /\ libraries' = reply.libraries
                 /\ documents' = reply.documents
                 /\ issued' = issued + reply.uuids
                 /\ last' = [op |-> "mcp_endpoint", arg |-> "", raised |-> "",
                             message |-> "", status |-> reply.status,
                             requests |-> reply.requests, listing |-> NoListing,
                             request |-> request, response |-> reply.response]
    /\ UNCHANGED <<mode, pc, chunkVars, rankVars, splitVars>>

\* the database after init_schema: both tables exist and are empty
NoCall == [op |-> "", arg |-> "", raised |-> "", message |-> "", status |-> NoStatus,
           requests |-> <<>>, listing |-> NoListing, request |-> NoRequest,
           response |-> NoResponse]

ApiInit ==
    /\ mode = "api"
    /\ pc = "serve"
    /\ libraries = <<>>
    /\ documents = <<>>
    /\ issued = 0
    /\ last = NoCall
    /\ text = ""
    /\ chunk_size = 0
    /\ overlap = 0
    /\ start = 0
    /\ chunks = <<>>
    /\ windows = <<>>
    /\ query = ""
    /\ stored = <<>>
    /\ rank = NoRank
    /\ NoSplit

ApiNext ==
    \/ create_library
    \/ update_library
    \/ partial_update_library
    \/ delete_library
    \/ create_document
    \/ get_document
    \/ get_document_content
    \/ get_document_embeddings
    \/ update_document
    \/ update_document_content
    \/ update_title
    \/ update_embeddings
    \/ delete_document

SpecApi == ApiInit /\ [][ApiNext]_vars

\* the library services alone, with the clock moving
LibInit ==
    /\ mode = "lib"
    /\ pc = "serve"
    /\ NoApi
    /\ text = ""
    /\ chunk_size = 0
    /\ overlap = 0
    /\ start = 0
    /\ chunks = <<>>
    /\ windows = <<>>
    /\ query = ""
    /\ stored = <<>>
    /\ rank = NoRank
    /\ NoSplit

LibNext ==
    \/ create_library
    \/ update_library
    \/ partial_update_library
    \/ delete_library

SpecLib == LibInit /\ [][LibNext]_vars

\* the services that create, move and delete documents and libraries
DocsInit ==
    /\ mode = "docs"
    /\ pc = "serve"
    /\ NoApi
    /\ text = ""
    /\ chunk_size = 0
    /\ overlap = 0
    /\ start = 0
    /\ chunks = <<>>
    /\ windows = <<>>
    /\ query = ""
    /\ stored = <<>>
    /\ rank = NoRank
    /\ NoSplit

DocsNext ==
    \/ create_library
    \/ delete_library
    \/ create_document
    \/ fetch_document
    \/ update_document
    \/ update_document_library
    \/ delete_document

SpecDocs == DocsInit /\ [][DocsNext]_vars

\* GET /api/v1/documents over the documents that were created
ListInit ==
    /\ mode = "list"
    /\ pc = "serve"
    /\ NoApi
    /\ text = ""
    /\ chunk_size = 0
    /\ overlap = 0
    /\ start = 0
    /\ chunks = <<>>
    /\ windows = <<>>
    /\ query = ""
    /\ stored = <<>>
    /\ rank = NoRank
    /\ NoSplit

ListNext ==
    \/ create_library
    \/ create_document
    \/ list_documents

SpecList == ListInit /\ [][ListNext]_vars

\* the server answering POST /mcp over libraries and documents that were
\* created through the REST services
McpInit ==
    /\ mode = "mcp"
    /\ pc = "serve"
    /\ NoApi
    /\ text = ""
    /\ chunk_size = 0
    /\ overlap = 0
    /\ start = 0
    /\ chunks = <<>>
    /\ windows = <<>>
    /\ query = ""
    /\ stored = <<>>
    /\ rank = NoRank
    /\ NoSplit

McpNext ==
    \/ create_library
    \/ create_document
    \/ mcp_endpoint

SpecMcp == McpInit /\ [][McpNext]_vars

-----------------------------------------------------------------------------
(* services and endpoints: properties *)

NoDuplicateNames(libs) ==
    \A i, j \in 1..Len(libs) :
        (libs[i].name = libs[j].name /\ libs[i].ecosystem = libs[j].ecosystem) => i = j

LibraryCalls ==
    {"create_library", "update_library", "partial_update_library", "delete_library"}

\* C14: whatever library calls are made, no two stored libraries have the
\* same name and ecosystem, and a library call that ends with an error
\* leaves the libraries table as it was
C14_UniqueNamePerEcosystem ==
    [][/\ NoDuplicateNames(libraries')
       /\ (last'.op \in LibraryCalls /\ last'.raised # "") => libraries' = libraries]_vars

\* a rename to the name of another library of the same ecosystem was rejected
C14_Witness ==
    /\ last.op \in {"update_library", "partial_update_library"}
    /\ last.raised = "ValueError"
    /\ Contains(last.message, "already exists")
    /\ Len(libraries) = 2
    /\ libraries[1].ecosystem = libraries[2].ecosystem

DocumentEndpoints ==
    {"create_document", "get_document", "get_document_content",
     "get_document_embeddings"}

\* C15: a document endpoint whose service call fails with a not-found error
\* (unknown library on create, unknown document on a read, no embeddings)
\* answers 404
C15_NotFoundAnswers404 ==
    (last.op \in DocumentEndpoints /\ last.raised \in NotFoundErrors) =>
        last.status = 404

\* what the services report about document doc_id, from tables libs and docs
HasEmbeddings(libs, docs, doc_id) == GetDocument(libs, docs, doc_id).value.has_embeddings
EmbeddingsMissing(libs, docs, doc_id) ==
    GetEmbeddings(libs, docs, doc_id).raised = "EmbeddingsNotFoundError"

Gone(out) == out.raised \in NotFoundErrors

\* C17: after a successful delete_document no row of the document is left
\* and deleting or reading it again fails with a not-found error; after a
\* successful delete_library deleting it again fails with "not found"
C17_DeletedIsGone ==
    /\ (last.op = "delete_document" /\ last.raised = "") =>
           /\ Len(ChunksOf(documents, last.arg)) = 0
           /\ Gone(DeleteDocument(libraries, documents, last.arg))
           /\ Gone(GetDocument(libraries, documents, last.arg))
           /\ Gone(GetContent(libraries, documents, last.arg))
           /\ Gone(GetEmbeddings(libraries, documents, last.arg))
    /\ (last.op = "delete_library" /\ last.raised = "") =>
           LET again == DeleteLibrary(libraries, documents, last.arg)
           IN  /\ Len(LibrariesById(libraries, last.arg)) = 0
               /\ again.raised = "ValueError"
               /\ Contains(again.message, "not found")

\* the only document was deleted while its library stays
C17_Witness ==
    /\ last.op = "delete_document"
    /\ last.raised = ""
    /\ last.arg = "doc-" \o Uuid(2)
    /\ Len(documents) = 0
    /\ Len(libraries) = 1

\* the rows of libs other than the library library_id
OtherRows(libs, library_id) ==
    {libs[i] : i \in {k \in 1..Len(libs) : libs[k].id # library_id}}

\* the row new is the row old but for name, description and updated_at
SameButEdited(old, new) ==
    [new EXCEPT !.name = old.name, !.description = old.description,
                !.updated_at = old.updated_at] = old

LibraryUpdates == {"update_library", "partial_update_library"}

\* C25: update_library and partial_update_library change only the name,
\* description and updated_at of the target library: its id, context7_id,
\* ecosystem, created_at and every other field keep their values, no other
\* library row changes, partial_update_library keeps the name or the
\* description that is not provided, and on a not-found or name-conflict error
\* the table is unchanged.
C25_UpdateFrame ==
    [][last'.op \in LibraryUpdates =>
          LET id == last'.arg
              old == LibrariesById(libraries, id)
              new == LibrariesById(libraries', id)
          IN  /\ last'.raised # "" => libraries' = libraries
              /\ last'.raised = "" =>
                    /\ Len(old) = 1 /\ Len(new) = 1
                    /\ SameButEdited(old[1], new[1])
                    /\ Len(libraries') = Len(libraries)
                    /\ OtherRows(libraries', id) = OtherRows(libraries, id)
                    /\ last'.op = "partial_update_library" =>
                          \A name \in Names \cup {None},
                             description \in Descriptions \cup {None}, now \in Times :
                              LET out == PartialUpdateLibrary(libraries, documents, id,
                                                              now, name, description)
                              IN  (out.raised = "" /\ out.libraries = libraries') =>
                                      /\ name = None => new[1].name = old[1].name
                                      /\ description = None =>
                                             new[1].description = old[1].description]_vars

\* a partial update at a later time, next to another library: the row has
\* the description that was set, its created_at and the new updated_at
C25_Witness ==
    /\ last.op = "partial_update_library" /\ last.raised = ""
    /\ Len(libraries) = 2
    /\ \E i \in 1..2 :
          /\ libraries[i].id = last.arg
          /\ libraries[i].id = "lib-pypi-my-lib-00000001"
          /\ libraries[i].name = "My Lib"
          /\ libraries[i].description = "docs"
          /\ libraries[i].created_at = Epoch
          /\ libraries[i].updated_at = Epoch + 1

\* the ids of the stored documents that match the filter of list_documents
MatchingIds(docs, library_id) ==
    {docs[i].document_id :
        i \in {j \in 1..Len(docs) : library_id = None \/ docs[j].library_id = library_id}}

\* the row a document was first stored in
FirstRow(docs, id) ==
    CHOOSE i \in 1..Len(docs) :
        /\ docs[i].document_id = id
        /\ \A j \in 1..(i - 1) : docs[j].document_id # id

\* the position of a document in the sequence of the matching documents
PositionOf(docs, library_id, id) ==
    Cardinality({d \in MatchingIds(docs, library_id) :
                    FirstRow(docs, d) <= FirstRow(docs, id)})

\* C27: list_documents(library_id, limit, offset) returns the documents at
\* positions offset to offset + limit - 1 (counted from 0) of the sequence of
\* the distinct stored documents that match the filter, each once, so that
\* successive pages enumerate every matching document exactly once
C27_ListPages ==
    (mode = "list" /\ last.op = "list_documents") =>
        LET page == last.listing
            ids == MatchingIds(documents, last.arg)
            expected == {d \in ids : PositionOf(documents, last.arg, d)
                                        \in (page.offset + 1)..(page.offset + page.limit)}
        IN  /\ Len(page.value) = Cardinality(expected)
            /\ \A k \in 1..Len(page.value) :
                   /\ page.value[k].id \in ids
                   /\ PositionOf(documents, last.arg, page.value[k].id) = page.offset + k

\* the ids of the documents stored with the library library_id
DocumentsOf(docs, library_id) ==
    {docs[k].document_id : k \in {j \in 1..Len(docs) : docs[j].library_id = library_id}}

\* C26: after any sequence of document create, fetch, delete and move
\* operations, the document_count reported for a library equals the number of
\* documents currently stored with that library's id.
C26_DocumentCount ==
    mode = "docs" =>
        \A i \in 1..Len(libraries) :
            libraries[i].document_count
                = Cardinality(DocumentsOf(documents, libraries[i].id))

HaveLibrary(libs, docs) ==
    \A k \in 1..Len(docs) : \E i \in 1..Len(libs) : libs[i].id = docs[k].library_id

DocumentWrites ==
    {"create_document", "fetch_document", "update_document", "update_document_library"}

\* C28: after any sequence of library and document service operations, the
\* library_id of every stored document is the id of a stored library:
\* create_document, fetch_document, full_update_document and the document
\* move reject an unknown target library without changing anything, and
\* delete_library fails and deletes nothing while any document refers to the
\* library.
C28_DocumentsHaveLibrary ==
    [][/\ HaveLibrary(libraries', documents')
       /\ (last'.op \in DocumentWrites /\ last'.raised # "") =>
              libraries' = libraries /\ documents' = documents
       /\ (/\ last'.op \in {"create_document", "fetch_document"}
           /\ Len(LibrariesById(libraries, last'.arg)) = 0) =>
              last'.raised = "LibraryNotFoundError"
       /\ (/\ last'.op \in {"update_document", "update_document_library"}
           /\ last'.raised = "") =>
              \E i \in 1..Len(libraries) :
                  libraries[i].id = ChunksOf(documents', last'.arg)[1].library_id
       /\ (/\ last'.op = "delete_library"
           /\ DocumentsOf(documents, last'.arg) # {}) =>
              /\ last'.raised = "ValueError"
              /\ libraries' = libraries /\ documents' = documents]_vars

\* delete_library was refused for a library that has a document
C28_Witness ==
    /\ mode = "docs"
    /\ last.op = "delete_library" /\ last.raised = "ValueError"
    /\ Len(libraries) = 1
    /\ Len(documents) = 1
    /\ documents[1].library_id = last.arg
    /\ libraries[1].id = last.arg

-----------------------------------------------------------------------------
(* Properties of POST /mcp                                                 *)

McpCalled == last.op = "mcp_endpoint"

\* C18: POST /mcp with a method other than tools/call (tools/list,
\* tools/initialize, an arbitrary name) is rejected with HTTP 400, and so is
\* a tools/call that names a tool the server does not provide.
C18_OtherMethodsRejected ==
    McpCalled =>
        /\ last.request.method # "tools/call" => last.status = 400
        /\ (/\ last.request.method = "tools/call"
            /\ last.request.params.given
            /\ last.request.params.name # None
            /\ \A i \in 1..Len(ToolNames) : ToolNames[i] # last.request.params.name)
               => last.status = 400

\* the text a tool call returns from the tables libs and docs; a
\* fetch-library-docs call returns one of the texts its remote answers allow
ToolTexts(libs, docs, n, request) ==
    LET arguments == request.params.arguments
    IN  IF request.params.name = "resolve-library-id"
        THEN {ResolveLibraryId(libs, arguments.libraryName)}
        ELSE IF request.params.name = "query-docs"
        THEN {QueryDocs(libs, docs, arguments.libraryId, arguments.query)}
        ELSE {FetchLibraryDocs(libs, docs, n, Epoch, arguments.libraryName, arguments.query,
                               arguments.fetchIfMissing, remote, fetched).response :
                 remote \in RemoteAnswers, fetched \in FetchAnswers}

SuccessfulToolCall ==
    McpCalled /\ last.request.method = "tools/call" /\ last.status = 200

\* C19: every successful tools/call response carries jsonrpc "2.0", a result
\* whose content is a list with one item of type "text" holding the tool's
\* text, and an id equal to the request's id, unchanged, whether the id is
\* an integer or a string.
C19_ToolCallResponse ==
    [][SuccessfulToolCall' =>
          /\ last'.response.jsonrpc = "2.0"
          /\ Len(last'.response.result.content) = 1
          /\ last'.response.result.content[1].type = "text"
          /\ last'.response.result.content[1].text
                 \in ToolTexts(libraries, documents, issued, last'.request)
          /\ last'.request.id.type \in {"int", "str"} =>
                 /\ last'.response.has_id
                 /\ last'.response.id = last'.request.id]_vars

\* the response to a resolve-library-id call with the integer id 0
C19_Witness ==
    /\ SuccessfulToolCall
    /\ last.request.id = IntId(0)
    /\ last.response.has_id
    /\ last.response.id = IntId(0)
    /\ last.response.result.content
           = <<[type |-> "text", text |-> "No libraries found matching 'zzz'"]>>

\* the text of a successful tools/call response
TextOf(call) == call.response.result.content[1].text

NameMatches(libs, library_name) ==
    \E i \in 1..Len(libs) : Contains(libs[i].name, library_name)
LibraryKnown(libs, library_id) ==
    \E i \in 1..Len(libs) :
        libs[i].context7_id = library_id \/ libs[i].id = library_id
HasDocuments(libs, docs, library_id) ==
    \E i \in 1..Len(libs), k \in 1..Len(docs) :
        /\ libs[i].context7_id = library_id \/ libs[i].id = library_id
        /\ docs[k].library_id = libs[i].id

\* C20: the MCP tools report failed lookups as a successful result with
\* explanatory text, never as an error: resolve_library_id with no exact and
\* no partial name match returns a text containing "No libraries found";
\* query_docs returns a text containing "not found" when the id matches
\* neither a context7_id nor an internal library id, and a text containing
\* "No documentation found" when the library exists but has no documents.
C20_FailedLookupsAreText ==
    [][(/\ McpCalled'
        /\ last'.request.method = "tools/call"
        /\ last'.request.params.given
        /\ last'.request.params.name \in {"resolve-library-id", "query-docs"}) =>
          LET arguments == last'.request.params.arguments
              resolving == last'.request.params.name = "resolve-library-id"
          IN  /\ (/\ resolving
                  /\ arguments.libraryName # None
                  /\ ~NameMatches(libraries, arguments.libraryName)) =>
                     /\ SuccessfulToolCall'
                     /\ Contains(TextOf(last'), "No libraries found")
              /\ (/\ ~resolving
                  /\ arguments.libraryId # None
                  /\ ~LibraryKnown(libraries, arguments.libraryId)) =>
                     /\ SuccessfulToolCall'
                     /\ Contains(TextOf(last'), "not found")
              /\ (/\ ~resolving
                  /\ arguments.libraryId # None
                  /\ LibraryKnown(libraries, arguments.libraryId)
                  /\ ~HasDocuments(libraries, documents, arguments.libraryId)) =>
                     /\ SuccessfulToolCall'
                     /\ Contains(TextOf(last'), "No documentation found")]_vars

\* query-docs by the context7 id of a stored library without documents
C20_Witness ==
    /\ SuccessfulToolCall
    /\ last.request.params.name = "query-docs"
    /\ last.request.params.arguments.libraryId = "/pypi/my-lib"
    /\ Len(libraries) = 1
    /\ documents = <<>>
    /\ TextOf(last) = "No documentation found for library 'My Lib'"

FetchCalled ==
    /\ McpCalled
    /\ last.status = 200
    /\ last.request.method = "tools/call"
    /\ last.request.params.name = "fetch-library-docs"

NameStored(libs, library_name) ==
    \E i \in 1..Len(libs) : libs[i].name = library_name

\* C21: fetch_library_docs contacts Context7 and creates a library or
\* document only when no stored library has the requested name and
\* fetch_if_missing is true; when a library with that name exists, or
\* fetch_if_missing is false, it makes no remote request and leaves both
\* tables unchanged.
C21_RemoteOnlyWhenMissing ==
    [][FetchCalled' =>
          LET arguments == last'.request.params.arguments
              allowed == /\ ~NameStored(libraries, arguments.libraryName)
                         /\ arguments.fetchIfMissing
          IN  /\ ~allowed => /\ last'.requests = <<>>
                             /\ libraries' = libraries
                             /\ documents' = documents
              /\ (\/ last'.requests # <<>>
                  \/ libraries' # libraries
                  \/ documents' # documents) => allowed]_vars

\* a call for a stored name with fetchIfMissing true: nothing is requested
C21_Witness ==
    /\ FetchCalled
    /\ last.request.params.arguments.fetchIfMissing
    /\ NameStored(libraries, last.request.params.arguments.libraryName)
    /\ last.requests = <<>>
    /\ documents = <<>>

\* the URL fetch_library_docs reads the documentation of a library from
DocsUrlOf(lib) == "https://context7.com" \o lib.context7_id \o "/llms.txt"

\* the call just answered was a fetch_library_docs that created a library,
\* the last row, and failed to fetch its documentation
CreatedWithoutDocs ==
    /\ FetchCalled
    /\ Len(last.requests) = 2
    /\ Len(libraries) > 0
    /\ last.requests[2] = DocsUrlOf(libraries[Len(libraries)])
    /\ DocumentsOf(documents, libraries[Len(libraries)].id) = {}

\* C29: a library created by fetch_library_docs ends up with its
\* documentation: when a call created the library but the document fetch
\* failed, a later call for the same library name with fetch_if_missing true
\* requests the documentation again, and unless that fetch fails too the
\* library has a document afterwards.
C29_FetchRetried ==
    [][(/\ CreatedWithoutDocs
        /\ FetchCalled'
        /\ last'.request.params.arguments.libraryName
               = last.request.params.arguments.libraryName
        /\ last'.request.params.arguments.fetchIfMissing) =>
           LET lib == libraries[Len(libraries)]
           IN  /\ \E k \in 1..Len(last'.requests) : last'.requests[k] = DocsUrlOf(lib)
               /\ \/ Contains(TextOf(last'), "failed: ")
                  \/ DocumentsOf(documents', lib.id) # {}]_vars

\* C30: after any sequence of create_library, update_library,
\* partial_update_library and delete_library calls no two stored libraries
\* have the same context7_id, so that the lookup by context7_id in query_docs
\* and fetch_library_docs identifies at most one library.
C30_UniqueContext7Id ==
    \A i, j \in 1..Len(libraries) :
        i # j => libraries[i].context7_id # libraries[j].context7_id

-----------------------------------------------------------------------------
(* any function, from any of its inputs *)

Init ==
    ChunkInit \/ RankInit \/ SplitInit \/ ApiInit \/ LibInit \/ DocsInit \/ ListInit
    \/ McpInit
Next ==
    ChunkNext \/ RankNext \/ SplitNext \/ ApiNext \/ LibNext \/ DocsNext \/ ListNext
    \/ McpNext
Spec == Init /\ [][Next]_vars

=============================================================================
